---- MODULE Spec2Model ----
(***************************************************************************)
(* Model of the incremental review pipeline: the HTML fingerprint          *)
(* (agent_app/core/fingerprint.py), the five stage agents                  *)
(* (agent_app/agents/nodes.py) chained by run_agentic_pipeline             *)
(* (agent_app/agents/workflow.py), the index builder                       *)
(* (rag_pipeline/embedder.py) and the chunker (rag_pipeline/chunker.py).   *)
(*                                                                         *)
(* One product is modelled.  The file system is the record fs; a file is   *)
(* a record with a kind field, Absent when it does not exist.              *)
(***************************************************************************)
EXTENDS Integers, Sequences, FiniteSets, TLC

(* ------------------------------ bounds -------------------------------- *)

\* runs of run_agentic_pipeline in one behaviour (also the range of the clock)
MaxRuns == 3
\* edits of the environment (HTML files written, artifacts deleted) in one behaviour
MaxEdits == 1
\* modification times and sizes an HTML file can take
MaxMtime == 2
MaxSize == 2
\* collaborator calls in one behaviour that end otherwise than with plain success
MaxFaults == 1
\* chunker inputs: documents per corpus, characters per document, budgets
MaxDocs == 2
MaxDocLen == 5
MaxTarget == 3
MaxOverlap == 1
\* chunks handed to one build_faiss_index call: enough for three batches
MaxChunks == 101
\* one call of retrieve_chunks: rows of the persisted files, top_k, scores
MaxRows == 3
MaxTopK == 4
MaxScore == 1
\* one call of build_corpus: review records in the reviews file
MaxReviews == 2
\* one call of run_q3_for_product: prompts per model
MaxPrompts == 2

VARIABLES
    html,     \* the product's HTML directory: a set of [filename, size, mtime]
    fs,       \* the persisted artifacts
    clock,    \* datetime.now(UTC), one tick per run
    edits,    \* environment edits made so far
    pc,       \* "idle", or the stage the running pipeline is about to execute
    ctx,      \* the PipelineState dictionary threaded through the stages
    hist,     \* history of the current run (what was entered, called, seen)
    last,     \* how the previous run ended and the HTML files it started from
    faults,   \* collaborator calls that did not plainly succeed, so far
    ck,       \* one call of chunk_corpus: its arguments, locals and loop position
    eb,       \* one call of build_faiss_index: chunks, provider, batches, files
    rq,       \* one call of retrieve_chunks: the pair read, the search, the results
    fp,       \* one pass through the head of run_agentic_pipeline: files, record, digests
    cb,       \* one call of build_corpus: the sources read, the loop position, the corpus
    gq        \* one call of run_q3_for_product: provider answers, retries, records, images

vars == <<html, fs, clock, edits, pc, ctx, hist, last, faults>>
calls == <<ck, eb, rq, fp, cb, gq>>
allVars == <<html, fs, clock, edits, pc, ctx, hist, last, faults, ck, eb, rq, fp, cb, gq>>

(* ------------------------------ values -------------------------------- *)

Absent == [kind |-> "absent"]
None == [kind |-> "None"]
Exists(f) == f.kind # "absent"

Range(s) == {s[i] : i \in 1..Len(s)}

Stages == <<"data_prep", "corpus_index", "q2_analysis", "q2_validation", "q3">>
StageSet == Range(Stages)

\* the single HTML file name of the product directory
HtmlName == "reviews_page_1.html"

(* ---------------------------- fingerprint ----------------------------- *)

\* hashlib.sha256(data).hexdigest(): an injective tag, collisions are not modelled
Sha256(data) == [sha256 |-> data]

\* the HTML file names a product directory can hold, and their order as paths
HtmlNames == {HtmlName, "reviews_page_2.html"}
PathOrder(name) == IF name = HtmlName THEN 1 ELSE 2

\* the orders in which glob can enumerate the files of a directory
Listings(files) ==
    {l \in [1..Cardinality(files) -> files] : \A a, b \in 1..Cardinality(files) : l[a] = l[b] => a = b}

\* the listing left as glob gave it
Sorted_AsListed(listing) == listing

\* sorted(html_paths): insertion by path
RECURSIVE Sorted(_)
Sorted(listing) ==
    IF listing = <<>> THEN <<>>
    ELSE LET rest == Sorted(Tail(listing))
             f == Head(listing)
             before == SelectSeq(rest, LAMBDA g : PathOrder(g.filename) < PathOrder(f.filename))
             after == SelectSeq(rest, LAMBDA g : PathOrder(g.filename) >= PathOrder(f.filename))
         IN before \o <<f>> \o after

\* file_metadata: name, size and mtime of each file, in sorted order
FileMetadataOf(listing) ==
    LET paths == Sorted(listing)
    IN [i \in 1..Len(paths) |->
          [filename |-> paths[i].filename, size |-> paths[i].size, mtime |-> paths[i].mtime]]

\* json.dumps(file_metadata, sort_keys=True) of the files of a directory
FileMetadata(files) ==
    IF files = {} THEN <<>> ELSE FileMetadataOf(CHOOSE l \in Listings(files) : TRUE)

get_html_paths(files) ==
    IF files = {} THEN [raised |-> "FileNotFoundError"] ELSE [raised |-> "no", paths |-> files]

compute_html_fingerprint(files) ==
    IF get_html_paths(files).raised # "no"
    THEN Sha256([bytes |-> <<>>])
    ELSE Sha256([json |-> FileMetadata(files)])

\* json.load of the state file: a file that cannot be opened or does not
\* parse gives None, as does the JSON null; any other JSON text gives its value
load_input_state(stateFile) ==
    IF ~Exists(stateFile) THEN None
    ELSE IF stateFile.kind \in {"truncated", "unreadable"} THEN None
    ELSE IF stateFile.kind = "json_value"
         THEN (IF stateFile.value.type = "null" THEN None
               ELSE [kind |-> "value", value |-> stateFile.value])
    ELSE [kind |-> "dict", html_fingerprint |-> stateFile.html_fingerprint,
          last_run_at |-> stateFile.last_run_at]

StateRecord(digest, now) ==
    [kind |-> "json", html_fingerprint |-> digest, last_run_at |-> now]

\* open("w") truncates the file, json.dump fills it; interrupted between the two
\* the file stays empty
save_input_state(outcome, digest, now) ==
    IF outcome = "ok" THEN StateRecord(digest, now) ELSE [kind |-> "truncated"]

\* the record is read under a key it does not hold
PreviousFingerprint_WrongKey(previous_state) == None

\* bool(previous_state)
Truthy(previous_state) ==
    IF previous_state = None THEN FALSE
    ELSE IF previous_state.kind = "dict" THEN TRUE
    ELSE previous_state.value.size > 0

AttributeError == [kind |-> "raised", exception |-> "AttributeError"]

\* previous_state.get("html_fingerprint") if previous_state else None
PreviousFingerprint(previous_state) ==
    IF ~Truthy(previous_state) THEN None
    ELSE IF previous_state.kind = "dict" THEN previous_state.html_fingerprint
    ELSE IF previous_state.value.type = "object" THEN None
    ELSE AttributeError

InputChanged(current_fingerprint, previous_fingerprint) ==
    current_fingerprint # previous_fingerprint

(* --------------------------- stage collaborators ---------------------- *)

\* parse_reviews_from_html: every size unit of an HTML file stands for one
\* review container; the reviews carry the file's identity
ParseReviews(files) ==
    LET f == CHOOSE x \in files : TRUE
    IN [i \in 1..f.size |-> [body |-> <<f.mtime, i>>]]

ReviewsJson(files) == [kind |-> "reviews", reviews |-> ParseReviews(files)]

\* build_corpus: the description document followed by the reviews in order
build_corpus(processed) ==
    IF ~Exists(processed) \/ Len(processed.reviews) = 0
    THEN [raised |-> "FileNotFoundError"]
    ELSE [raised |-> "no",
          docs |-> <<[type |-> "description", text |-> <<0, 0>>]>>
                   \o [i \in 1..Len(processed.reviews) |->
                         [type |-> "review", text |-> processed.reviews[i].body]]]

\* chunk_corpus as the stage sees it: the documents of this model stand for
\* documents of the target size, so each one is flushed as a chunk of its own
PipelineChunks(docs) ==
    [i \in 1..Len(docs) |->
        [chunk_id |-> i - 1, text |-> docs[i].text,
         source_types |-> {docs[i].type}, meta |-> [doc_count |-> 1]]]

\* _embed_texts: one vector per text, in order
EmbedTexts(texts) == [i \in 1..Len(texts) |-> [embedding_of |-> texts[i]]]

IndexFile(chunks) ==
    [kind |-> "index", vectors |-> EmbedTexts([i \in 1..Len(chunks) |-> chunks[i].text])]

MetaFile(chunks) ==
    [kind |-> "meta",
     rows |-> [i \in 1..Len(chunks) |->
                 [chunk_id |-> chunks[i].chunk_id, text |-> chunks[i].text,
                  source_types |-> chunks[i].source_types, meta |-> chunks[i].meta]]]

\* build_faiss_index: the index file is written first, the metadata file second.
\* outcome "embed_error": the provider call raises, nothing is written;
\* outcome "stopped_between_writes": the index is written, the metadata is not.
build_faiss_index(outcome, chunks, files) ==
    IF outcome = "embed_error" THEN files
    ELSE IF outcome = "stopped_between_writes"
         THEN [files EXCEPT !.index = IndexFile(chunks)]
    ELSE [files EXCEPT !.index = IndexFile(chunks), !.meta = MetaFile(chunks)]

BuildOutcomes == {"ok", "embed_error", "stopped_between_writes"}

\* load_faiss_index raises FileNotFoundError unless both files exist
load_faiss_index(files) ==
    IF ~Exists(files.index) \/ ~Exists(files.meta)
    THEN [raised |-> "FileNotFoundError"]
    ELSE [raised |-> "no"]

(* ------------------------------ ratings ------------------------------- *)
\* The rating of a review as JSON holds it and as Python converts it: None,
\* an int, a float (floor, plus one half when half is set) or a string.

IntRating(n) == [kind |-> "int", value |-> n]
FloatRating(n, half) == [kind |-> "float", floor |-> n, half |-> half]
StrRating(text) == [kind |-> "str", text |-> text]

\* float(text) for the strings of this model
float(text) ==
    CASE text = "4" -> FloatRating(4, FALSE)
      [] text = "4.5" -> FloatRating(4, TRUE)
      [] text = "7" -> FloatRating(7, FALSE)
      [] text = "inf" -> [kind |-> "inf"]
      [] OTHER -> [kind |-> "raised", exception |-> "ValueError"]

\* int(x) for an int or a float: the fraction is cut off; infinity cannot be converted
int(x) ==
    CASE x.kind = "int" -> x
      [] x.kind = "float" -> IntRating(x.floor)
      [] OTHER -> [kind |-> "raised", exception |-> "OverflowError"]

\* "if rating": None and zero are false
RatingIsTruthy(rating) ==
    CASE rating.kind = "None" -> FALSE
      [] rating.kind = "int" -> rating.value # 0
      [] rating.kind = "float" -> rating.floor # 0 \/ rating.half
      [] OTHER -> TRUE

(* ------------------------------ chunker ------------------------------- *)
\* A text is a sequence of characters; "x" stands for any non-blank character.

Whitespace == {" ", "\n"}

RECURSIVE LStrip(_)
LStrip(t) == IF t # <<>> /\ Head(t) \in Whitespace THEN LStrip(Tail(t)) ELSE t

RECURSIVE RStrip(_)
RStrip(t) ==
    IF t # <<>> /\ t[Len(t)] \in Whitespace THEN RStrip(SubSeq(t, 1, Len(t) - 1)) ELSE t

\* str.strip()
Strip(t) == RStrip(LStrip(t))

\* "\n\n".join(texts)
RECURSIVE Join(_)
Join(texts) ==
    IF texts = <<>> THEN <<>>
    ELSE IF Len(texts) = 1 THEN texts[1]
    ELSE texts[1] \o <<"\n", "\n">> \o Join(Tail(texts))

\* text[:n], the head of the text where its tail is meant
LastChars_Head(t, n) == IF Len(t) <= n THEN t ELSE SubSeq(t, 1, n)

\* text[-n:] for n > 0
LastChars(t, n) == IF Len(t) <= n THEN t ELSE SubSeq(t, Len(t) - n + 1, Len(t))

Max(a, b) == IF a >= b THEN a ELSE b
Min(a, b) == IF a <= b THEN a ELSE b

estimate_tokens(text) == Max(1, Len(text) \div 4)

\* f"{chunk_index:04d}": the decimal digits, padded with zeros to four
Format04d(n) == <<(n \div 1000) % 10, (n \div 100) % 10, (n \div 10) % 10, n % 10>>

ZeroCounts == [r \in 1..5 |-> 0]

\* flush_chunk: a no-op on an empty bin; otherwise the bin becomes the next
\* chunk and the bin restarts, seeded with the tail of the chunk's text when
\* overlap_tokens > 0
flush_chunk(c) ==
    IF c.current_texts = <<>> THEN c
    ELSE LET chunk_text == Strip(Join(c.current_texts))
             chunk == [chunk_id |-> Format04d(c.chunk_index),
                       source_types |-> c.current_source_types,
                       texts |-> c.current_texts,
                       text |-> chunk_text,
                       meta |-> [rating_counts |-> c.rating_counts,
                                 doc_count |-> Len(c.current_texts)]]
             overlap_text == LastChars(chunk_text, c.overlap_tokens * 4)
             seeded == c.overlap_tokens > 0 /\ chunk_text # <<>>
         IN [c EXCEPT !.chunks = Append(@, chunk),
                      !.chunk_index = @ + 1,
                      !.current_texts = IF seeded THEN <<overlap_text>> ELSE <<>>,
                      !.current_tokens = IF seeded THEN estimate_tokens(overlap_text) ELSE 0,
                      !.current_source_types = {},
                      !.rating_counts = ZeroCounts]

\* a flush test that never fires
BinOverflows_Never(current_tokens, doc_tokens, target_tokens, current_texts) == FALSE

\* the flush test at the head of the loop body
BinOverflows(current_tokens, doc_tokens, target_tokens, current_texts) ==
    current_tokens + doc_tokens > target_tokens /\ current_texts # <<>>

\* one iteration of "for doc in docs"
ChunkLoopBody(c, doc) ==
    LET text == Strip(doc.text)
        doc_tokens == estimate_tokens(text)
        c1 == IF BinOverflows(c.current_tokens, doc_tokens, c.target_tokens, c.current_texts)
              THEN flush_chunk(c) ELSE c
    IN IF text = <<>> THEN c
       ELSE [c1 EXCEPT !.current_texts = Append(@, text),
                       !.current_tokens = @ + doc_tokens,
                       !.current_source_types = @ \cup {doc.type},
                       !.rating_counts =
                           IF RatingIsTruthy(doc.rating) /\ int(doc.rating).value \in 1..5
                           THEN [@ EXCEPT ![int(doc.rating).value] = @ + 1] ELSE @]

\* the locals of chunk_corpus before the loop
ChunkCall(docs, target_tokens, overlap_tokens) ==
    [at |-> "loop", docs |-> docs, next |-> 1,
     target_tokens |-> target_tokens, overlap_tokens |-> overlap_tokens,
     current_texts |-> <<>>, current_tokens |-> 0, current_source_types |-> {},
     rating_counts |-> ZeroCounts, chunk_index |-> 0, chunks |-> <<>>]

NoCall == [ChunkCall(<<>>, 1, 0) EXCEPT !.at = "none"]

\* the texts build_corpus can hand over: stripped, not empty; a blank, where
\* there is one, sits four characters before the end
Xs(n) == [i \in 1..n |-> "x"]
DocTexts ==
    {Xs(n) : n \in 1..MaxDocLen}
    \cup {Xs(n - 4) \o <<" ">> \o Xs(3) : n \in 5..MaxDocLen}

\* the ratings build_corpus hands over: None, an int, a float it let through
Docs ==
    [type : {"review"}, text : DocTexts,
     rating : {None, IntRating(3), FloatRating(4, TRUE)}]
    \cup [type : {"description"}, text : DocTexts, rating : {None}]

Corpora == UNION {[1..n -> Docs] : n \in 0..MaxDocs}

\* three review bodies of 40, 400 and 40 characters, chunked with
\* target_tokens = 100 and overlap_tokens = 10
Chars(ch, n) == [i \in 1..n |-> ch]
ExampleCorpus ==
    <<[type |-> "review", text |-> Chars("a", 40), rating |-> None],
      [type |-> "review", text |-> Chars("b", 400), rating |-> None],
      [type |-> "review", text |-> Chars("c", 40), rating |-> None]>>
ExampleCall == ChunkCall(ExampleCorpus, 100, 10)

\* corpora with one document whose own estimate exceeds target_tokens, alone,
\* last, first, and between two other documents
Oversized(target_tokens) ==
    [type |-> "review", text |-> Chars("b", 4 * (target_tokens + 1)), rating |-> None]
Neighbour == [type |-> "review", text |-> Xs(MaxDocLen), rating |-> None]
OversizedCorpora(target_tokens) ==
    {<<Oversized(target_tokens)>>,
     <<Neighbour, Oversized(target_tokens)>>,
     <<Oversized(target_tokens), Neighbour>>,
     <<Neighbour, Oversized(target_tokens), Neighbour>>}

(* ------------------------------ initial state ------------------------- *)

EmptyFs ==
    [state |-> Absent, raw |-> Absent, processed |-> Absent, index |-> Absent,
     meta |-> Absent, analysis |-> Absent, summary |-> Absent, manifest |-> Absent]

NoCtx ==
    [input_changed |-> FALSE, html_fingerprint |-> None,
     previous_html_fingerprint |-> None, raw_data_paths |-> FALSE,
     corpus_built |-> FALSE, index_built |-> FALSE,
     q2_status |-> "pending", q2_validation_report |-> "unset",
     q3_status |-> "pending", q3_error_reason |-> "unset",
     q3_manifest_path |-> "unset", logs |-> <<>>]

NoHist ==
    [result |-> "none", visited |-> <<>>, invoked |-> {}, failed |-> {},
     missingAtEntry |-> {}, startFs |-> EmptyFs, startHtml |-> {},
     savePrev |-> Absent, saveNew |-> Absent]

NoLast == [result |-> "none", html |-> {}]

\* no call of build_faiss_index, of retrieve_chunks, of the head of the run,
\* of build_corpus, of run_q3_for_product
NoBuild == [at |-> "none"]
NoQuery == [at |-> "none"]
NoPass == [at |-> "none"]
NoCorpus == [at |-> "none"]
NoGen == [at |-> "none"]

\* the pipeline before anything was run
PipelineAtRest ==
    /\ html = {}
    /\ fs = EmptyFs
    /\ clock = 0
    /\ edits = 0
    /\ pc = "idle"
    /\ ctx = NoCtx
    /\ hist = NoHist
    /\ last = NoLast
    /\ faults = 0

HtmlFiles == [filename : {HtmlName}, size : 1..MaxSize, mtime : 1..MaxMtime]

Init ==
    /\ html \in {{}} \cup {{f} : f \in HtmlFiles}
    /\ fs = EmptyFs
    /\ clock = 0
    /\ edits = 0
    /\ pc = "idle"
    /\ ctx = NoCtx
    /\ hist = NoHist
    /\ last = NoLast
    /\ faults = 0
    /\ ck = NoCall
    /\ eb = NoBuild
    /\ rq = NoQuery
    /\ fp = NoPass
    /\ cb = NoCorpus
    /\ gq = NoGen

(* ------------------------------ environment --------------------------- *)

\* the user saves (or re-saves) the HTML page of the product
WriteHtml ==
    /\ pc = "idle"
    /\ edits < MaxEdits
    /\ \E s \in 1..MaxSize, m \in 1..MaxMtime :
          /\ html' = {[filename |-> HtmlName, size |-> s, mtime |-> m]}
          /\ html' # html
    /\ edits' = edits + 1
    /\ ctx' = NoCtx
    /\ hist' = NoHist
    /\ UNCHANGED <<fs, clock, pc, last, faults, calls>>

\* files the pipeline later looks for are removed by hand
Deletable == {"raw", "index", "meta", "analysis", "summary", "manifest"}

DeleteArtifact ==
    /\ pc = "idle"
    /\ edits < MaxEdits
    /\ \E a \in Deletable :
          /\ Exists(fs[a])
          /\ fs' = [fs EXCEPT ![a] = Absent]
    /\ edits' = edits + 1
    /\ ctx' = NoCtx
    /\ hist' = NoHist
    /\ UNCHANGED <<html, clock, pc, last, faults, calls>>

(* ------------------------------ orchestrator -------------------------- *)

\* a stage that leaves the log as it found it
Log_Drop(c, line) == c

Log(c, line) == [c EXCEPT !.logs = Append(@, line)]

Enter(h, stage, missing) ==
    [h EXCEPT !.visited = Append(@, stage),
              !.missingAtEntry = IF missing THEN @ \cup {stage} ELSE @]

\* run_agentic_pipeline up to workflow.invoke
StartRun ==
    /\ pc = "idle"
    /\ clock < MaxRuns
    /\ clock' = clock + 1
    /\ LET current_fingerprint == compute_html_fingerprint(html)
           previous_state == load_input_state(fs.state)
           previous_fingerprint == PreviousFingerprint(previous_state)
           input_changed == InputChanged(current_fingerprint, previous_fingerprint)
       IN IF previous_fingerprint = AttributeError
          THEN \* the exception leaves run_agentic_pipeline before any stage
               /\ ctx' = NoCtx
               /\ hist' = [NoHist EXCEPT !.startFs = fs, !.startHtml = html,
                                         !.result = "raised"]
               /\ last' = [result |-> "raised", html |-> html]
               /\ pc' = "idle"
          ELSE /\ ctx' = [NoCtx EXCEPT
                            !.html_fingerprint = current_fingerprint,
                            !.previous_html_fingerprint = previous_fingerprint,
                            !.input_changed = input_changed,
                            !.logs = << IF input_changed
                                        THEN "[workflow] HTML input changed"
                                        ELSE "[workflow] HTML input unchanged",
                                        "[workflow] Run ID" >>]
               /\ hist' = [NoHist EXCEPT !.startFs = fs, !.startHtml = html]
               /\ last' = last
               /\ pc' = "data_prep"
    /\ UNCHANGED <<html, fs, edits, faults, calls>>

(* ------------------------------ stages -------------------------------- *)

\* a collaborator's outcome other than "ok" is possible only where the
\* collaborator is called, and uses up one of the MaxFaults
Possible(outcome, called) == outcome = "ok" \/ (called /\ faults < MaxFaults)
Spend(outcomes) == faults' = faults + Cardinality({i \in 1..Len(outcomes) : outcomes[i] # "ok"})

\* build_reviews_json: load_html_contents, parse, write the raw reviews JSON.
\* outcome "oserror": an HTML file cannot be read or the JSON cannot be written
build_reviews_json(outcome, files, fsys) ==
    IF get_html_paths(files).raised # "no"
    THEN [raised |-> "FileNotFoundError", fs |-> fsys]
    ELSE IF outcome = "oserror"
         THEN [raised |-> "PermissionError", fs |-> fsys]
    ELSE [raised |-> "no", fs |-> [fsys EXCEPT !.raw = ReviewsJson(files)]]

\* the except clause of data_preparation_agent around build_reviews_json
DataPrepCatches(exception) == exception = "FileNotFoundError"

\* _copy_reviews_to_processed, inside try/except Exception
CopyReviews(copy, c, fsys) ==
    IF copy = "ok"
    THEN [ctx |-> Log(c, "[data_prep] Copied reviews to data/processed/"),
          fs |-> [fsys EXCEPT !.processed = fsys.raw]]
    ELSE [ctx |-> Log(c, "[data_prep] WARNING: Could not copy reviews"), fs |-> fsys]

DataPrepDone(copy, c, fsys) ==
    LET r == CopyReviews(copy, c, fsys)
    IN /\ ctx' = [r.ctx EXCEPT !.raw_data_paths = TRUE]
       /\ fs' = r.fs
       /\ pc' = "corpus_index"

data_preparation_agent ==
    /\ pc = "data_prep"
    /\ \E outcome \in {"ok", "oserror"}, copy \in {"ok", "error"} :
         /\ Possible(outcome, (ctx.input_changed \/ ~Exists(fs.raw)) /\ html # {})
         /\ Possible(copy, outcome = "ok" /\ ((ctx.input_changed \/ ~Exists(fs.raw)) => html # {}))
         /\ outcome = "ok" \/ copy = "ok"
         /\ Spend(<<outcome, copy>>)
         /\ LET c0 == Log(ctx, "[data_prep] Starting")
                h0 == Enter(hist, "data_prep", ~Exists(fs.raw))
                h1 == [h0 EXCEPT !.invoked = @ \cup {"build_reviews_json"}]
                r == build_reviews_json(outcome, html, fs)
            IN IF ctx.input_changed \/ ~Exists(fs.raw)
               THEN IF r.raised = "no"
                    THEN /\ DataPrepDone(copy,
                              Log(c0, IF ctx.input_changed
                                      THEN "[data_prep] HTML changed - rebuilt raw reviews JSON"
                                      ELSE "[data_prep] No existing JSON found - built raw reviews JSON"),
                              r.fs)
                         /\ hist' = h1
                         /\ last' = last
                    ELSE IF DataPrepCatches(r.raised)
                    THEN /\ ctx' = Log(c0, "[data_prep] ERROR")
                         /\ hist' = [h1 EXCEPT !.failed = @ \cup {"data_prep"}]
                         /\ pc' = "corpus_index"
                         /\ fs' = fs
                         /\ last' = last
                    ELSE \* the exception leaves the agent and workflow.invoke
                         /\ ctx' = c0
                         /\ hist' = [h1 EXCEPT !.failed = @ \cup {"data_prep"},
                                               !.result = "raised"]
                         /\ pc' = "idle"
                         /\ fs' = fs
                         /\ last' = [result |-> "raised", html |-> hist.startHtml]
               ELSE /\ DataPrepDone(copy,
                         Log(c0, "[data_prep] HTML unchanged - reusing existing raw reviews JSON"),
                         fs)
                    /\ hist' = h0
                    /\ last' = last
    /\ UNCHANGED <<html, clock, edits, calls>>

\* the try block shared by both working branches of corpus_and_index_agent
CorpusIndexWork(outcome, c, fsys) ==
    LET corpus == build_corpus(fsys.processed)
        c1 == Log(c, "[corpus_index] Built corpus")
        chunks == PipelineChunks(corpus.docs)
        c2 == Log(c1, "[corpus_index] Created chunks")
    IN IF corpus.raised # "no"
       THEN [ok |-> FALSE, ctx |-> Log(c, "[corpus_index] ERROR"), fs |-> fsys,
             invoked |-> {"build_corpus"}]
       ELSE IF outcome # "ok"
       THEN [ok |-> FALSE, ctx |-> Log(c2, "[corpus_index] ERROR"),
             fs |-> build_faiss_index(outcome, chunks, fsys),
             invoked |-> {"build_corpus", "build_faiss_index"}]
       ELSE [ok |-> TRUE,
             ctx |-> [Log(c2, "[corpus_index] Built FAISS index")
                         EXCEPT !.corpus_built = TRUE, !.index_built = TRUE],
             fs |-> build_faiss_index(outcome, chunks, fsys),
             invoked |-> {"build_corpus", "build_faiss_index"}]

\* the output whose absence makes corpus_and_index_agent rebuild when the input is unchanged
IndexUpToDate(fsys) == Exists(fsys.index)

corpus_and_index_agent ==
    /\ pc = "corpus_index"
    /\ \E outcome \in BuildOutcomes :
         /\ Possible(outcome, (ctx.input_changed \/ ~IndexUpToDate(fs))
                                /\ build_corpus(fs.processed).raised = "no")
         /\ Spend(<<outcome>>)
         /\ LET h0 == Enter(hist, "corpus_index", ~IndexUpToDate(fs))
                w == CorpusIndexWork(outcome,
                       Log(ctx, IF ctx.input_changed
                                THEN "[corpus_index] Input changed - rebuilding corpus + index"
                                ELSE "[corpus_index] Input unchanged but index missing - building corpus + index"),
                       fs)
            IN IF ~ctx.input_changed /\ IndexUpToDate(fs)
               THEN /\ ctx' = [Log(ctx, "[corpus_index] Input unchanged and index exists - skipped (up to date)")
                                  EXCEPT !.corpus_built = TRUE, !.index_built = TRUE]
                    /\ fs' = fs
                    /\ hist' = h0
               ELSE /\ ctx' = IF w.ok /\ ctx.input_changed
                              THEN Log(w.ctx, "[corpus_index] Completed corpus + index")
                              ELSE w.ctx
                    /\ fs' = w.fs
                    /\ hist' = [h0 EXCEPT !.invoked = @ \cup w.invoked,
                                          !.failed = IF w.ok THEN @ ELSE @ \cup {"corpus_index"}]
    /\ pc' = "q2_analysis"
    /\ UNCHANGED <<html, clock, edits, last, calls>>

\* get_rag_context: the texts the analysis is written from are the texts of
\* the metadata rows retrieve_chunks returns
RagContext(fsys) == [i \in 1..Len(fsys.meta.rows) |-> fsys.meta.rows[i].text]

\* run_full_analysis: _ensure_index, the LLM calls, then the two output files
run_full_analysis(outcome, fsys, now) ==
    IF load_faiss_index(fsys).raised # "no"
    THEN [raised |-> "FileNotFoundError", fs |-> fsys]
    ELSE IF outcome = "provider_error"
         THEN [raised |-> "APIError", fs |-> fsys]
    ELSE [raised |-> "no",
          fs |-> [fsys EXCEPT !.analysis = [kind |-> "analysis", written_at |-> now,
                                            context |-> RagContext(fsys)],
                              !.summary = [kind |-> "summary", written_at |-> now,
                                           context |-> RagContext(fsys)]]]

Q2Work(outcome, c, fsys, now) ==
    LET r == run_full_analysis(outcome, fsys, now)
    IN IF r.raised = "no"
       THEN [ok |-> TRUE, fs |-> r.fs,
             ctx |-> [Log(c, "[q2_analysis] Wrote analysis and summary")
                         EXCEPT !.q2_status = "success"]]
       ELSE [ok |-> FALSE, fs |-> r.fs,
             ctx |-> [Log(c, "[q2_analysis] ERROR") EXCEPT !.q2_status = "failed"]]

q2_analysis_agent ==
    /\ pc = "q2_analysis"
    /\ \E outcome \in {"ok", "provider_error"} :
         /\ Possible(outcome, (ctx.input_changed \/ ~Exists(fs.analysis) \/ ~Exists(fs.summary))
                                /\ load_faiss_index(fs).raised = "no")
         /\ Spend(<<outcome>>)
         /\ LET h0 == Enter(hist, "q2_analysis", ~Exists(fs.analysis) \/ ~Exists(fs.summary))
                w == Q2Work(outcome,
                       Log(ctx, IF ctx.input_changed
                                THEN "[q2_analysis] Input changed - running Q2 analysis"
                                ELSE "[q2_analysis] Input unchanged but outputs missing - running Q2 analysis"),
                       fs, clock)
            IN IF ~ctx.input_changed /\ Exists(fs.analysis) /\ Exists(fs.summary)
               THEN /\ ctx' = [Log(ctx, "[q2_analysis] Input unchanged and outputs exist - skipped (up to date)")
                                  EXCEPT !.q2_status = "skipped"]
                    /\ fs' = fs
                    /\ hist' = h0
               ELSE /\ ctx' = w.ctx
                    /\ fs' = w.fs
                    /\ hist' = [h0 EXCEPT !.invoked = @ \cup {"run_full_analysis"},
                                          !.failed = IF w.ok THEN @ ELSE @ \cup {"q2_analysis"}]
    /\ pc' = "q2_validation"
    /\ UNCHANGED <<html, clock, edits, last, calls>>

\* q2_validation_agent: the validator subprocess is run on every call
q2_validation_agent ==
    /\ pc = "q2_validation"
    /\ \E outcome \in {"ok", "issues", "exception"} :
         /\ Possible(outcome, TRUE)
         /\ Spend(<<outcome>>)
         /\ LET c0 == Log(ctx, "[q2_validation] Validating Q2 outputs")
                h0 == [Enter(hist, "q2_validation", FALSE)
                         EXCEPT !.invoked = @ \cup {"validate_q2_outputs"}]
            IN IF outcome = "exception"
               THEN /\ ctx' = Log(c0, "[q2_validation] ERROR")
                    /\ hist' = [h0 EXCEPT !.failed = @ \cup {"q2_validation"}]
               ELSE /\ ctx' = Log([Log(c0, IF outcome = "ok"
                                           THEN "[q2_validation] Validation passed."
                                           ELSE "[q2_validation] Validation found issues (see report).")
                                      EXCEPT !.q2_validation_report =
                                                 IF outcome = "ok" THEN "passed" ELSE "issues"],
                                  "[q2_validation] Validation completed.")
                    /\ hist' = h0
    /\ pc' = "q3"
    /\ UNCHANGED <<html, fs, clock, edits, last, calls>>

\* the overall status run_q3_for_product derives from the two per-model statuses
OverallStatus(dalle, sdxl) ==
    IF dalle = "success" /\ sdxl = "success" THEN "success"
    ELSE IF dalle = "success" /\ sdxl \in {"failed", "partial"} THEN "partial"
    ELSE IF dalle \in {"failed", "partial"} /\ sdxl = "success" THEN "partial"
    ELSE IF dalle = "success" THEN "partial"
    ELSE "failed"

\* the per-model statuses (DALL-E, SDXL) a generation run ends with
Q3Good == <<"success", "success">>
Q3Outcomes == {Q3Good, <<"success", "failed">>, <<"failed", "failed">>}
\* the call raises before any image is generated
Q3Raises == <<"raise", "raise">>

\* run_q3_for_product: prompts are built from the Q2 analysis (raising when it
\* cannot be read), images are generated, the run's entries are appended to
\* the manifest, which is written whatever the statuses are
run_q3_for_product(outcome, fsys, now) ==
    IF ~Exists(fsys.analysis) \/ outcome = Q3Raises
    THEN [raised |-> "RuntimeError", fs |-> fsys]
    ELSE [raised |-> "no",
          overall_status |-> OverallStatus(outcome[1], outcome[2]),
          sdxl_status |-> outcome[2],
          fs |-> [fsys EXCEPT !.manifest =
                    [kind |-> "manifest", last_updated |-> now,
                     images |-> (IF Exists(fsys.manifest) THEN fsys.manifest.images ELSE <<>>)
                                \o <<[run_id |-> now, dalle3 |-> outcome[1], sdxl |-> outcome[2],
                                       prompts |-> fsys.analysis.context]>>]]]

Q3ErrorReason(overall_status, sdxl_status, old) ==
    IF sdxl_status = "failed" THEN "SDXL generation failed"
    ELSE IF overall_status = "failed" THEN "All image generation failed"
    ELSE IF overall_status = "partial" THEN "DALL-E / SDXL statuses"
    ELSE old

\* f"[q3] Q3 completed for {pid}: {overall_status} (...)"
Q3CompletedLine(overall_status) ==
    CASE overall_status = "success" -> "[q3] Q3 completed: success"
      [] overall_status = "partial" -> "[q3] Q3 completed: partial"
      [] OTHER -> "[q3] Q3 completed: failed"

Q3Work(outcome, c, fsys, now) ==
    LET r == run_q3_for_product(outcome, fsys, now)
    IN IF r.raised = "no"
       THEN [ok |-> r.overall_status # "failed", fs |-> r.fs,
             ctx |-> [Log(c, Q3CompletedLine(r.overall_status))
                         EXCEPT !.q3_manifest_path = "manifest.json",
                                !.q3_status = r.overall_status,
                                !.q3_error_reason =
                                    Q3ErrorReason(r.overall_status, r.sdxl_status, @)]]
       ELSE [ok |-> FALSE, fs |-> r.fs,
             ctx |-> [Log(c, "[q3] ERROR")
                         EXCEPT !.q3_status = "failed", !.q3_error_reason = "exception text"]]

\* a guard that lets every context through
Q3Blocked_Never(q2_status) == FALSE

\* the guard at the head of q3_agent
Q3Blocked(q2_status) == q2_status = "failed"

q3_agent ==
    /\ pc = "q3"
    /\ \E outcome \in Q3Outcomes \cup {Q3Raises} :
         /\ \/ outcome = Q3Good
            \/ /\ ~Q3Blocked(ctx.q2_status)
               /\ ctx.input_changed \/ ~Exists(fs.manifest)
               /\ Exists(fs.analysis)
               /\ faults < MaxFaults
         /\ faults' = IF outcome = Q3Good THEN faults ELSE faults + 1
         /\ LET h0 == Enter(hist, "q3", ~Exists(fs.manifest))
                w == Q3Work(outcome,
                       Log(ctx, IF ctx.input_changed
                                THEN "[q3] Input changed - running Q3 image generation"
                                ELSE "[q3] Input unchanged but manifest missing - running Q3 image generation"),
                       fs, clock)
            IN IF Q3Blocked(ctx.q2_status)
               THEN /\ ctx' = [Log(ctx, "[q3] Q2 analysis failed - skipping Q3 image generation")
                                  EXCEPT !.q3_status = "skipped",
                                         !.q3_error_reason = "Q2 analysis failed - missing visual attributes",
                                         !.q3_manifest_path =
                                             IF Exists(fs.manifest) THEN "manifest.json" ELSE "None"]
                    /\ fs' = fs
                    /\ hist' = h0
               ELSE IF ~ctx.input_changed /\ Exists(fs.manifest)
               THEN /\ ctx' = [Log(ctx, "[q3] Input unchanged and manifest exists - skipped (up to date)")
                                  EXCEPT !.q3_status = "skipped",
                                         !.q3_error_reason = "Input unchanged and images already exist",
                                         !.q3_manifest_path = "manifest.json"]
                    /\ fs' = fs
                    /\ hist' = h0
               ELSE /\ ctx' = w.ctx
                    /\ fs' = w.fs
                    /\ hist' = [h0 EXCEPT !.invoked = @ \cup {"run_q3_for_product"},
                                          !.failed = IF w.ok THEN @ ELSE @ \cup {"q3"}]
    /\ pc' = "save"
    /\ UNCHANGED <<html, clock, edits, last, calls>>

\* run_agentic_pipeline after workflow.invoke: save_input_state, the last log
\* line, return.  outcome "interrupted": the process stops inside
\* save_input_state after the file was opened for writing
FinishRun ==
    /\ pc = "save"
    /\ \E outcome \in {"ok", "interrupted"} :
         /\ Possible(outcome, TRUE)
         /\ Spend(<<outcome>>)
         /\ fs' = [fs EXCEPT !.state = save_input_state(outcome, ctx.html_fingerprint, clock)]
         /\ ctx' = IF outcome = "ok"
                   THEN Log(ctx, "[workflow] Saved input state fingerprint")
                   ELSE ctx
         /\ hist' = [hist EXCEPT !.result = IF outcome = "ok" THEN "returned" ELSE "crashed",
                                 !.savePrev = fs.state,
                                 !.saveNew = StateRecord(ctx.html_fingerprint, clock)]
         /\ last' = [result |-> IF outcome = "ok" THEN "returned" ELSE "crashed",
                     html |-> hist.startHtml]
    /\ pc' = "idle"
    /\ UNCHANGED <<html, clock, edits, calls>>

Next ==
    \/ WriteHtml
    \/ DeleteArtifact
    \/ StartRun
    \/ data_preparation_agent
    \/ corpus_and_index_agent
    \/ q2_analysis_agent
    \/ q2_validation_agent
    \/ q3_agent
    \/ FinishRun

Spec == Init /\ [][Next]_allVars

(* ------------------------------ chunker run -------------------------- *)

InitChunk ==
    /\ PipelineAtRest
    /\ eb = NoBuild
    /\ rq = NoQuery
    /\ fp = NoPass
    /\ cb = NoCorpus
    /\ gq = NoGen
    /\ \/ \E docs \in Corpora, t \in 1..MaxTarget, o \in 0..MaxOverlap :
             /\ \A i \in 2..Len(docs) : docs[i].type = "review"
             /\ ck = ChunkCall(docs, t, o)
       \/ ck = ExampleCall
       \/ \E t \in 1..MaxTarget, o \in 0..MaxOverlap :
             \E docs \in OversizedCorpora(t) : ck = ChunkCall(docs, t, o)

ChunkDoc ==
    /\ ck.at = "loop"
    /\ ck.next <= Len(ck.docs)
    /\ ck' = [ChunkLoopBody(ck, ck.docs[ck.next]) EXCEPT !.next = ck.next + 1]
    /\ UNCHANGED <<vars, eb, rq, fp, cb, gq>>

\* the flush after the loop, and the return
ChunkReturn ==
    /\ ck.at = "loop"
    /\ ck.next > Len(ck.docs)
    /\ ck' = [flush_chunk(ck) EXCEPT !.at = "returned"]
    /\ UNCHANGED <<vars, eb, rq, fp, cb, gq>>

NextChunk == ChunkDoc \/ ChunkReturn

SpecChunk == InitChunk /\ [][NextChunk]_allVars

(* ------------------------------ index build --------------------------- *)
\* build_faiss_index with _embed_texts written out batch by batch.

\* the step of range(0, len(texts), 50)
BatchSize == 50

\* the n chunks chunk_corpus returns, each with a text of its own
BuildChunks(n) ==
    [i \in 1..n |->
        [chunk_id |-> i - 1, text |-> <<"chunk", i>>,
         source_types |-> {"review"}, meta |-> [doc_count |-> 1]]]

\* the provider answers every request with one embedding per input, in the
\* order of the inputs, except request number `fails`, which it answers with
\* an error: a rate limit (another attempt would be served) or a refusal of
\* the credentials; fails = 0 is a provider that always answers
Providers ==
    [fails : 0..((MaxChunks + BatchSize - 1) \div BatchSize), kind : {"rate_limit", "auth"}]

ProviderError(kind) == IF kind = "rate_limit" THEN "RateLimitError" ELSE "AuthenticationError"

\* a batch that is always the first one
Batch_First(texts, i) == SubSeq(texts, 1, Min(BatchSize, Len(texts)))

\* texts[i : i + 50]
Batch(texts, i) == SubSeq(texts, i + 1, Min(i + BatchSize, Len(texts)))

BuildCall(n, provider) ==
    [at |-> "called", chunks |-> BuildChunks(n), provider |-> provider,
     i |-> 0, requests |-> 0, embeddings |-> <<>>, raised |-> "no",
     index |-> Absent, meta |-> Absent]

InitEmbed ==
    /\ PipelineAtRest
    /\ ck = NoCall
    /\ rq = NoQuery
    /\ fp = NoPass
    /\ cb = NoCorpus
    /\ gq = NoGen
    /\ \E n \in 0..MaxChunks, provider \in Providers :
          /\ provider.fails = 0 => provider.kind = "rate_limit"
          /\ eb = BuildCall(n, provider)

\* chunk_corpus, and the ValueError when it returns no chunk
BuildStart ==
    /\ eb.at = "called"
    /\ eb' = IF eb.chunks = <<>>
             THEN [eb EXCEPT !.at = "raised", !.raised = "ValueError"]
             ELSE [eb EXCEPT !.at = "embedding"]
    /\ UNCHANGED <<vars, ck, rq, fp, cb, gq>>

\* one iteration of the loop of _embed_texts: one request, made once
EmbedBatch ==
    /\ eb.at = "embedding"
    /\ eb.i < Len(eb.chunks)
    /\ LET texts == [k \in 1..Len(eb.chunks) |-> eb.chunks[k].text]
           batch == Batch(texts, eb.i)
       IN eb' = IF eb.provider.fails = eb.requests + 1
                THEN [eb EXCEPT !.at = "raised", !.requests = @ + 1,
                                !.raised = ProviderError(eb.provider.kind)]
                ELSE [eb EXCEPT !.requests = @ + 1, !.i = @ + BatchSize,
                                !.embeddings = @ \o EmbedTexts(batch)]
    /\ UNCHANGED <<vars, ck, rq, fp, cb, gq>>

\* np.vstack, index.add and faiss.write_index
WriteIndex ==
    /\ eb.at = "embedding"
    /\ eb.i >= Len(eb.chunks)
    /\ eb' = [eb EXCEPT !.at = "index_written",
                        !.index = [kind |-> "index", vectors |-> eb.embeddings]]
    /\ UNCHANGED <<vars, ck, rq, fp, cb, gq>>

\* metadata_records and json.dump, then the return
WriteMetadata ==
    /\ eb.at = "index_written"
    /\ eb' = [eb EXCEPT !.at = "returned", !.meta = MetaFile(eb.chunks)]
    /\ UNCHANGED <<vars, ck, rq, fp, cb, gq>>

NextEmbed == BuildStart \/ EmbedBatch \/ WriteIndex \/ WriteMetadata

SpecEmbed == InitEmbed /\ [][NextEmbed]_allVars

(* ------------------------------ retrieval ----------------------------- *)

\* the pairs build_faiss_index leaves behind: the two files of one build, or
\* the index of a build that stopped after write_index beside the metadata
\* of the build before it
PersistedPairs ==
    {[index |-> IndexFile(BuildChunks(n)), meta |-> MetaFile(BuildChunks(m))] :
        n \in 1..MaxRows, m \in 1..MaxRows}

\* an index file that holds no vector, beside any metadata file
EmptyIndexPairs ==
    {[index |-> IndexFile(<<>>), meta |-> MetaFile(BuildChunks(m))] : m \in 0..MaxRows}

Queries == {"", "How do customers describe the appearance?"}

\* an emptiness test that never answers yes
IndexIsEmpty_Never(index) == FALSE

\* index.ntotal == 0
IndexIsEmpty(index) == Len(index.vectors) = 0

\* index.search(query, k) for k <= ntotal: k different positions of the
\* index with their inner products, best first; which vectors score best
\* depends on the embeddings, so any such list can come back
SearchResults(ntotal, k) ==
    {r \in [1..k -> [score : 0..MaxScore, idx : 0..(ntotal - 1)]] :
        \A a, b \in 1..k : a < b => (r[a].idx # r[b].idx /\ r[a].score >= r[b].score)}

\* the loop over zip(scores[0], idxs[0]) with rank counted from 1
RECURSIVE ResultsFrom(_, _, _)
ResultsFrom(search, metadata, rank) ==
    IF rank > Len(search) THEN <<>>
    ELSE LET idx == search[rank].idx
         IN (IF idx < Len(metadata)
             THEN <<[chunk_id |-> metadata[idx + 1].chunk_id,
                     score |-> search[rank].score,
                     text |-> metadata[idx + 1].text,
                     source_types |-> metadata[idx + 1].source_types,
                     meta |-> metadata[idx + 1].meta,
                     rank |-> rank]>>
             ELSE <<>>)
            \o ResultsFrom(search, metadata, rank + 1)

QueryCall(pair, query, top_k) ==
    [at |-> "called", files |-> pair, query |-> query, top_k |-> top_k,
     embedded |-> <<>>, search |-> <<>>, results |-> <<>>]

InitRetrieve ==
    /\ PipelineAtRest
    /\ ck = NoCall
    /\ eb = NoBuild
    /\ fp = NoPass
    /\ cb = NoCorpus
    /\ gq = NoGen
    /\ \E query \in Queries :
          \/ \E pair \in PersistedPairs, top_k \in 1..MaxTopK :
                rq = QueryCall(pair, query, top_k)
          \/ \E pair \in EmptyIndexPairs, top_k \in 0..MaxTopK :
                rq = QueryCall(pair, query, top_k)

\* load_faiss_index and the return of [] for an index without vectors
ReturnEmpty ==
    /\ rq.at = "called"
    /\ load_faiss_index(rq.files).raised = "no"
    /\ IndexIsEmpty(rq.files.index)
    /\ rq' = [rq EXCEPT !.at = "returned", !.results = <<>>]
    /\ UNCHANGED <<vars, ck, eb, fp, cb, gq>>

\* load_faiss_index, _embed_query and index.search
Search ==
    /\ rq.at = "called"
    /\ load_faiss_index(rq.files).raised = "no"
    /\ ~IndexIsEmpty(rq.files.index)
    /\ LET ntotal == Len(rq.files.index.vectors)
           k == Min(rq.top_k, ntotal)
       IN \E r \in SearchResults(ntotal, k) :
             rq' = [rq EXCEPT !.at = "searched", !.search = r,
                              !.embedded = @ \o <<rq.query>>]
    /\ UNCHANGED <<vars, ck, eb, fp, cb, gq>>

\* the results list and the return
CollectResults ==
    /\ rq.at = "searched"
    /\ rq' = [rq EXCEPT !.at = "returned",
                        !.results = ResultsFrom(rq.search, rq.files.meta.rows, 1)]
    /\ UNCHANGED <<vars, ck, eb, fp, cb, gq>>

NextRetrieve == ReturnEmpty \/ Search \/ CollectResults

SpecRetrieve == InitRetrieve /\ [][NextRetrieve]_allVars

(* ------------------------------ head of the run ----------------------- *)
\* compute_html_fingerprint, load_input_state and the comparison, on any
\* HTML directory and any content of the state file.

\* directories of up to two HTML files
HtmlDirs ==
    {d \in SUBSET [filename : HtmlNames, size : 1..MaxSize, mtime : 1..MaxMtime] :
        \A f, g \in d : f.filename = g.filename => f = g}

\* JSON texts that are not a record written by save_input_state: null,
\* arrays, strings, numbers, objects without a digest; size is the length,
\* the value or the number of keys
JsonValues ==
    {[type |-> "null", size |-> 0]}
    \cup [type : {"array", "string", "number", "object"}, size : 0..1]

\* what the state file can hold when a run starts
StateFiles(files) ==
    {Absent, [kind |-> "unreadable"], [kind |-> "truncated"]}
    \cup {[kind |-> "json_value", value |-> v] : v \in JsonValues}
    \cup {StateRecord(compute_html_fingerprint(d), 0) : d \in {files, {}}}

\* the directories one change away: a file added, a file removed, the size
\* or the mtime of one file changed
OneChange(files) ==
    {d \in HtmlDirs :
        \/ \E f \in d : f \notin files /\ d \ {f} = files
        \/ \E f \in files : f \notin d /\ files \ {f} = d
        \/ \E f \in files, g \in d :
              /\ f.filename = g.filename /\ f # g
              /\ (f.size = g.size \/ f.mtime = g.mtime)
              /\ files \ {f} = d \ {g}}

NoFirst == [files |-> {}, digest |-> None, seen |-> FALSE]

PassCall(files, stateFile) ==
    [at |-> "called", files |-> files, stateFile |-> stateFile,
     current_fingerprint |-> None, previous_fingerprint |-> None,
     input_changed |-> FALSE, first |-> NoFirst]

InitFingerprint ==
    /\ PipelineAtRest
    /\ ck = NoCall
    /\ eb = NoBuild
    /\ rq = NoQuery
    /\ cb = NoCorpus
    /\ gq = NoGen
    /\ \E files \in HtmlDirs : \E stateFile \in StateFiles(files) :
          fp = PassCall(files, stateFile)

\* compute_html_fingerprint, glob having listed the files in some order
ComputeFingerprint ==
    /\ fp.at = "called"
    /\ \E listing \in Listings(fp.files) :
          fp' = [fp EXCEPT !.at = "computed",
                           !.current_fingerprint =
                               IF listing = <<>> THEN Sha256([bytes |-> <<>>])
                               ELSE Sha256([json |-> FileMetadataOf(listing)])]
    /\ UNCHANGED <<vars, ck, eb, rq, cb, gq>>

\* load_input_state, previous_fingerprint and input_changed
ComparePrevious ==
    /\ fp.at = "computed"
    /\ LET previous_state == load_input_state(fp.stateFile)
           previous_fingerprint == PreviousFingerprint(previous_state)
       IN fp' = IF previous_fingerprint = AttributeError
                THEN [fp EXCEPT !.at = "raised"]
                ELSE [fp EXCEPT !.at = "compared",
                                !.previous_fingerprint = previous_fingerprint,
                                !.input_changed =
                                    InputChanged(fp.current_fingerprint, previous_fingerprint)]
    /\ UNCHANGED <<vars, ck, eb, rq, cb, gq>>

\* between two runs the directory is left alone or changed in one place
NextPass ==
    /\ fp.at \in {"compared", "raised"}
    /\ ~fp.first.seen
    /\ \E files \in OneChange(fp.files) \cup {fp.files} :
          fp' = [fp EXCEPT !.at = "called", !.files = files,
                           !.first = [files |-> fp.files, digest |-> fp.current_fingerprint,
                                      seen |-> TRUE]]
    /\ UNCHANGED <<vars, ck, eb, rq, cb, gq>>

NextFingerprint == ComputeFingerprint \/ ComparePrevious \/ NextPass

SpecFingerprint == InitFingerprint /\ [][NextFingerprint]_allVars

(* ------------------------------ corpus build -------------------------- *)
\* build_corpus with its loop over the review records written out.

\* the description file: missing, blank, or a text with blanks around it
DescriptionFiles ==
    {Absent} \cup {[kind |-> "text", text |-> t] : t \in {<<" ">>, <<"d">>, <<" ", "d", " ">>}}

\* review.get("body"): missing or empty, blank, or a text
Bodies == {<<>>, <<" ">>, <<"x", " ">>, <<"y">>}

\* review.get("rating") as JSON can hold it
RawRatings ==
    {None, IntRating(3), IntRating(7), FloatRating(4, TRUE)}
    \cup {StrRating(t) : t \in {"4", "4.5", "7", "abc", "inf"}}

RawReviews == [body : Bodies, rating : RawRatings]

\* the reviews file: missing, or a JSON list of review records
ReviewFiles ==
    {Absent} \cup {[kind |-> "reviews", reviews |-> l] :
                      l \in UNION {[1..n -> RawReviews] : n \in 0..MaxReviews}}

\* load_description: the first file with a text in it, trimmed
load_description(file) ==
    IF ~Exists(file) \/ file.text = <<>>
    THEN [raised |-> "FileNotFoundError"]
    ELSE [raised |-> "no", text |-> Strip(file.text)]

\* load_reviews: the first file holding a list that is not empty
load_reviews(file) ==
    IF ~Exists(file) \/ file.reviews = <<>>
    THEN [raised |-> "FileNotFoundError"]
    ELSE [raised |-> "no", reviews |-> file.reviews]

\* the isinstance(rating, str) block: int(float(rating)), None on ValueError
NormalizeRating(rating) ==
    IF rating.kind # "str" THEN rating
    ELSE LET f == float(rating.text)
         IN IF f.kind = "raised" THEN None ELSE int(f)

CorpusCall(description, reviews) ==
    [at |-> "called", description |-> description, reviewsFile |-> reviews,
     reviews |-> <<>>, next |-> 1, corpus |-> <<>>, raised |-> "no"]

InitCorpus ==
    /\ PipelineAtRest
    /\ ck = NoCall
    /\ eb = NoBuild
    /\ rq = NoQuery
    /\ fp = NoPass
    /\ gq = NoGen
    /\ \E description \in DescriptionFiles, reviews \in ReviewFiles :
          cb = CorpusCall(description, reviews)

\* load_description, the description document, load_reviews
LoadSources ==
    /\ cb.at = "called"
    /\ LET d == load_description(cb.description)
           r == load_reviews(cb.reviewsFile)
       IN cb' = IF d.raised # "no" THEN [cb EXCEPT !.at = "raised", !.raised = d.raised]
                ELSE IF r.raised # "no" THEN [cb EXCEPT !.at = "raised", !.raised = r.raised]
                ELSE [cb EXCEPT !.at = "loop", !.reviews = r.reviews,
                                !.corpus = IF d.text # <<>>
                                           THEN <<[type |-> "description", text |-> d.text,
                                                   rating |-> None]>>
                                           ELSE <<>>]
    /\ UNCHANGED <<vars, ck, eb, rq, fp, gq>>

\* one iteration of "for review in reviews"
AddReview ==
    /\ cb.at = "loop"
    /\ cb.next <= Len(cb.reviews)
    /\ LET review == cb.reviews[cb.next]
           rating == NormalizeRating(review.rating)
       IN cb' = IF Strip(review.body) = <<>> THEN [cb EXCEPT !.next = @ + 1]
                ELSE IF rating.kind = "raised"
                THEN [cb EXCEPT !.at = "raised", !.raised = rating.exception]
                ELSE [cb EXCEPT !.next = @ + 1,
                                !.corpus = Append(@, [type |-> "review",
                                                      text |-> Strip(review.body),
                                                      rating |-> rating])]
    /\ UNCHANGED <<vars, ck, eb, rq, fp, gq>>

ReturnCorpus ==
    /\ cb.at = "loop"
    /\ cb.next > Len(cb.reviews)
    /\ cb' = [cb EXCEPT !.at = "returned"]
    /\ UNCHANGED <<vars, ck, eb, rq, fp, gq>>

NextCorpus == LoadSources \/ AddReview \/ ReturnCorpus

SpecCorpus == InitCorpus /\ [][NextCorpus]_allVars

(* ------------------------------ image generation --------------------- *)
\* run_q3_for_product from the two generate calls to the overall status,
\* with the retry loop of generate_sdxl_images written out request by request.

SDXL_MAX_RETRIES == 2
PROMPTS_PER_PRODUCT == 3

\* the status dictionary both generators derive from their counters
ModelStatus(success_count, failed_count) ==
    IF success_count > 0 /\ failed_count = 0
    THEN [status |-> "success", num_images |-> success_count]
    ELSE IF success_count > 0
    THEN [status |-> "partial", num_images |-> success_count]
    ELSE [status |-> "failed", num_images |-> 0]

KeyMissing == [status |-> "failed", num_images |-> 0]
NoPrompts == [status |-> "skipped", num_images |-> 0]
NoStatus == [status |-> "unset", num_images |-> 0]

\* what the provider can answer to one POST
Responses == {"image", "429", "http_error", "no_artifacts", "network_exception"}

\* the PNG files under images/q3/<product>/sdxl left by an earlier run
EarlierImages(names) == {[name |-> n, run |-> "earlier"] : n \in names}

\* _cleanup_old_images: every PNG under the model directory that is not in
\* archive/ is renamed into archive/
cleanup_old_images(dir, archive) == [dir |-> {}, archive |-> archive \cup dir]

\* "exc.response and exc.response.status_code == 429": a Response is true
\* only when its status is below 400
IsRateLimit(response) ==
    response.present /\ response.status_code < 400 /\ response.status_code = 429

\* the HTTPError raised by the loop itself carries no response; the one
\* raise_for_status raises carries the error response
RaisedInLoop == [present |-> FALSE, status_code |-> 0]
RaisedForStatus == [present |-> TRUE, status_code |-> 500]

GenCall(openai_key, sdxl_key, dalle_prompts, sdxl_prompts, names) ==
    [at |-> "called", openai_key |-> openai_key, sdxl_key |-> sdxl_key,
     dalle_prompts |-> dalle_prompts, sdxl_prompts |-> sdxl_prompts,
     dalle_status |-> NoStatus, sdxl_status |-> NoStatus, overall_status |-> "unset",
     earlier |-> EarlierImages(names), dir |-> EarlierImages(names), archive |-> {},
     prompt |-> 1, retry_count |-> 0, requests |-> [i \in 1..sdxl_prompts |-> 0],
     metadata |-> <<>>, success_count |-> 0, failed_count |-> 0,
     rate_limit_failures |-> 0]

InitGen ==
    /\ PipelineAtRest
    /\ ck = NoCall
    /\ eb = NoBuild
    /\ rq = NoQuery
    /\ fp = NoPass
    /\ cb = NoCorpus
    /\ \E openai_key, sdxl_key \in BOOLEAN,
          dalle_prompts, sdxl_prompts \in 0..Min(MaxPrompts, PROMPTS_PER_PRODUCT),
          names \in SUBSET (1..MaxPrompts) :
          gq = GenCall(openai_key, sdxl_key, dalle_prompts, sdxl_prompts, names)

\* generate_dalle3_images: each prompt ends with an image or with a failure
GenerateDalle ==
    /\ gq.at = "called"
    /\ \E success_count \in 0..gq.dalle_prompts :
          gq' = [gq EXCEPT !.at = "dalle_done",
                           !.dalle_status =
                               IF ~gq.openai_key THEN KeyMissing
                               ELSE IF gq.dalle_prompts = 0 THEN NoPrompts
                               ELSE ModelStatus(success_count, gq.dalle_prompts - success_count)]
    /\ UNCHANGED <<vars, ck, eb, rq, fp, cb>>

\* generate_sdxl_images up to the loop over the prompts
SdxlStart ==
    /\ gq.at = "dalle_done"
    /\ gq' = IF ~gq.sdxl_key
             THEN [gq EXCEPT !.at = "sdxl_done", !.sdxl_status = KeyMissing]
             ELSE IF gq.sdxl_prompts = 0
             THEN [gq EXCEPT !.at = "sdxl_done", !.sdxl_status = NoPrompts]
             ELSE [gq EXCEPT !.at = "sdxl_loop"]
    /\ UNCHANGED <<vars, ck, eb, rq, fp, cb>>

FailedRecord(g, error) ==
    [prompt_id |-> g.prompt, status |-> "failed", filepath |-> 0, error |-> error]

\* the except blocks: one failed record, failed_count, break
Failed(g, response, error) ==
    LET is_rate_limit == IsRateLimit(response)
    IN IF is_rate_limit /\ g.retry_count < SDXL_MAX_RETRIES
       THEN [g EXCEPT !.rate_limit_failures = @ + 1, !.retry_count = @ + 1]
       ELSE [g EXCEPT !.rate_limit_failures = IF is_rate_limit THEN @ + 1 ELSE @,
                      !.metadata = Append(@, FailedRecord(g, IF is_rate_limit
                                                             THEN "rate_limit" ELSE error)),
                      !.failed_count = @ + 1,
                      !.prompt = @ + 1, !.retry_count = 0]

\* one pass through the body of "while retry_count <= max_retries and not success"
SdxlRequest ==
    /\ gq.at = "sdxl_loop"
    /\ gq.prompt <= gq.sdxl_prompts
    /\ gq.retry_count <= SDXL_MAX_RETRIES
    /\ \E response \in Responses :
          LET g == [gq EXCEPT !.requests[gq.prompt] = @ + 1]
          IN gq' =
              CASE response = "network_exception" ->
                     [g EXCEPT !.metadata = Append(@, FailedRecord(g, "exception")),
                               !.failed_count = @ + 1,
                               !.prompt = @ + 1, !.retry_count = 0]
                [] response = "429" ->
                     IF g.retry_count < SDXL_MAX_RETRIES
                     THEN [g EXCEPT !.retry_count = @ + 1]
                     ELSE Failed(g, RaisedInLoop, "http_error")
                [] response = "http_error" -> Failed(g, RaisedForStatus, "http_error")
                [] response = "no_artifacts" ->
                     [g EXCEPT !.prompt = @ + 1, !.retry_count = 0]
                [] OTHER ->
                     [g EXCEPT !.dir = {f \in @ : f.name # g.prompt}
                                          \cup {[name |-> g.prompt, run |-> "current"]},
                               !.metadata = Append(@, [prompt_id |-> g.prompt,
                                                       status |-> "success",
                                                       filepath |-> g.prompt,
                                                       error |-> "none"]),
                               !.success_count = @ + 1,
                               !.prompt = @ + 1, !.retry_count = 0]
    /\ UNCHANGED <<vars, ck, eb, rq, fp, cb>>

\* the status of the model after the loop
SdxlStatus(g) ==
    IF g.success_count > 0 THEN ModelStatus(g.success_count, g.failed_count)
    ELSE [status |-> "failed", num_images |-> 0]

\* after the loop: archiving when an image was generated, the status, return
SdxlFinish ==
    /\ gq.at = "sdxl_loop"
    /\ gq.prompt > gq.sdxl_prompts
    /\ LET moved == cleanup_old_images(gq.dir, gq.archive)
       IN gq' = [gq EXCEPT !.at = "sdxl_done",
                           !.dir = IF gq.success_count > 0 THEN moved.dir ELSE @,
                           !.archive = IF gq.success_count > 0 THEN moved.archive ELSE @,
                           !.sdxl_status = SdxlStatus(gq)]
    /\ UNCHANGED <<vars, ck, eb, rq, fp, cb>>

\* run_q3_for_product: the overall status, and the return
ReturnQ3 ==
    /\ gq.at = "sdxl_done"
    /\ gq' = [gq EXCEPT !.at = "returned",
                        !.overall_status =
                            OverallStatus(gq.dalle_status.status, gq.sdxl_status.status)]
    /\ UNCHANGED <<vars, ck, eb, rq, fp, cb>>

NextGen == GenerateDalle \/ SdxlStart \/ SdxlRequest \/ SdxlFinish \/ ReturnQ3

SpecGen == InitGen /\ [][NextGen]_allVars

(* ------------------------------ properties ---------------------------- *)

Visited(s) == s \in Range(hist.visited)

\* the call that is the work of each stage
WorkOf(s) ==
    CASE s = "data_prep" -> "build_reviews_json"
      [] s = "corpus_index" -> "build_corpus"
      [] s = "q2_analysis" -> "run_full_analysis"
      [] s = "q2_validation" -> "validate_q2_outputs"
      [] s = "q3" -> "run_q3_for_product"

Worked(s) == WorkOf(s) \in hist.invoked

\* the log line with which a stage reports that it skipped its work
SkipLine(s) ==
    CASE s = "data_prep" -> "[data_prep] HTML unchanged - reusing existing raw reviews JSON"
      [] s = "corpus_index" -> "[corpus_index] Input unchanged and index exists - skipped (up to date)"
      [] s = "q2_analysis" -> "[q2_analysis] Input unchanged and outputs exist - skipped (up to date)"
      [] s = "q2_validation" -> "[q2_validation] skipped (up to date)"
      [] s = "q3" -> "[q3] Input unchanged and manifest exists - skipped (up to date)"

SkipReported(s) == SkipLine(s) \in Range(ctx.logs)

\* the stage whose failure is the failed upstream precondition of s
Upstream(s) ==
    CASE s = "corpus_index" -> "data_prep"
      [] s = "q2_analysis" -> "corpus_index"
      [] s = "q3" -> "q2_analysis"
      [] OTHER -> "none"

UpstreamFailed(s) == Upstream(s) \in hist.failed

Returned == pc = "idle" /\ hist.result = "returned"

AllOutputsPresent(fsys) ==
    \A a \in {"state", "raw", "processed", "index", "meta", "analysis", "summary", "manifest"} :
        Exists(fsys[a])

\* C1: every stage that ran (and whose upstream did not fail) did its work
\* exactly when the input changed or its own output artifact was missing on
\* entry; q2_validation has no artifact of its own, so nothing of it is ever
\* missing and with unchanged input it is to skip.
C1_StageRule ==
    \A s \in StageSet :
        (Visited(s) /\ ~UpstreamFailed(s))
            => (Worked(s) <=> (ctx.input_changed \/ s \in hist.missingAtEntry))

\* C2: a run that returns, had unchanged input and found every output present
\* reports a skip for each of the five stages and leaves every persisted
\* artifact as it found it.
C2_Idempotent ==
    (Returned /\ ~ctx.input_changed /\ AllOutputsPresent(hist.startFs))
        => ((\A s \in StageSet : SkipReported(s)) /\ fs = hist.startFs)

\* C3: a run that ended (the process not having been stopped) visited the
\* five stages in order and stored the digest it computed at its start.
C3_FailSoft ==
    (pc = "idle" /\ hist.result \in {"returned", "raised"})
        => /\ hist.visited = Stages
           /\ load_input_state(fs.state) # None
           /\ load_input_state(fs.state).html_fingerprint = ctx.html_fingerprint

\* C4: no exception leaves a stage.
C4_NoStageRaises == hist.result # "raised"

\* C5: a stage entered after its upstream stage failed in the same run does
\* not call its work.
C5_UpstreamGuard ==
    \A s \in {"corpus_index", "q2_analysis", "q3"} :
        (Visited(s) /\ UpstreamFailed(s)) => ~Worked(s)

\* C6: a run with unchanged input that starts with exactly one of the index
\* file and the metadata file rebuilds the pair: the build is called, and
\* unless the build itself fails both files exist when the run returns.
C6_HalfPairRepaired ==
    (Returned /\ ~ctx.input_changed
        /\ Exists(hist.startFs.index) # Exists(hist.startFs.meta))
        => /\ "build_corpus" \in hist.invoked
           /\ "corpus_index" \notin hist.failed => (Exists(fs.index) /\ Exists(fs.meta))

\* C7: during a run input_changed is TRUE when no readable record was stored
\* at its start, otherwise it is TRUE exactly when the stored digest differs
\* from the digest of the HTML files; a run that follows a run that returned,
\* on the same HTML files, has input_changed FALSE.
C7_InputChanged ==
    pc # "idle" =>
        LET stored == hist.startFs.state
        IN /\ stored.kind \in {"absent", "truncated"} => ctx.input_changed
           /\ stored.kind = "json" =>
                 (ctx.input_changed <=>
                     stored.html_fingerprint # compute_html_fingerprint(hist.startHtml))
           /\ (last.result = "returned" /\ last.html = hist.startHtml) => ~ctx.input_changed

\* a second run on unchanged HTML files, after a run that returned
C7_Witness ==
    /\ pc = "corpus_index"
    /\ last.result = "returned"
    /\ last.html = hist.startHtml
    /\ hist.startHtml # {}
    /\ ~ctx.input_changed

\* C8: once save_input_state has begun, completed or not, load_input_state
\* yields the record stored before it or the record it writes.
C8_AtomicSave ==
    (pc = "idle" /\ hist.result \in {"returned", "crashed"})
        => load_input_state(fs.state)
              \in {load_input_state(hist.savePrev), load_input_state(hist.saveNew)}

\* C9: whenever the index file and the metadata file both exist they have
\* the same number of rows and vector i is the embedding of the text of
\* metadata row i.
C9_PairConsistent ==
    (Exists(fs.index) /\ Exists(fs.meta))
        => /\ Len(fs.index.vectors) = Len(fs.meta.rows)
           /\ \A i \in 1..Len(fs.index.vectors) :
                 i <= Len(fs.meta.rows) =>
                     fs.index.vectors[i].embedding_of = fs.meta.rows[i].text

\* the first entry of chunk k is the overlap seed
HasSeed(k) == k > 1 /\ ck.overlap_tokens > 0 /\ ck.chunks[k - 1].text # <<>>

\* the documents of chunk k, the seed left out
RealTexts(k) == IF HasSeed(k) THEN Tail(ck.chunks[k].texts) ELSE ck.chunks[k].texts

\* chunk k holds one document, and that document alone exceeds the budget
SingleOversized(k) ==
    /\ Len(RealTexts(k)) = 1
    /\ estimate_tokens(RealTexts(k)[1]) > ck.target_tokens

\* C10: every chunk, except one holding a single oversized document, has
\* estimate_tokens(text) <= target_tokens.
C10_TokenBound ==
    \A k \in 1..Len(ck.chunks) :
        ~SingleOversized(k) => estimate_tokens(ck.chunks[k].text) <= ck.target_tokens

IsExample ==
    /\ ck.at = "returned"
    /\ ck.docs = ExampleCorpus
    /\ ck.target_tokens = 100
    /\ ck.overlap_tokens = 10

\* t[-n:] written out by positions
Trailing(t, n) == [i \in 1..n |-> t[Len(t) - n + i]]

\* C11: on the bodies of 40, 400 and 40 characters with target_tokens 100
\* and overlap_tokens 10, chunk_corpus returns three chunks: 0000 holds the
\* first body alone; 0001 holds the last 40 characters of 0000 and the second
\* body; 0002 holds the last 40 characters of 0001 and the third body.
C11_ExampleThreeChunks ==
    IsExample =>
        /\ Len(ck.chunks) = 3
        /\ ck.chunks[1].texts = <<Chars("a", 40)>>
        /\ ck.chunks[2].texts = <<Trailing(ck.chunks[1].text, 40), Chars("b", 400)>>
        /\ ck.chunks[3].texts = <<Trailing(ck.chunks[2].text, 40), Chars("c", 40)>>
        /\ \A k \in 1..3 : ck.chunks[k].chunk_id = <<0, 0, 0, k - 1>>

C11_Witness == IsExample /\ Len(ck.chunks) > 0

\* C11 as the example is worded: two chunks, 0000 holding the first body
\* alone and 0001 holding the seed, the second and the third body.
C11_ExampleTwoChunks ==
    IsExample =>
        /\ Len(ck.chunks) = 2
        /\ ck.chunks[1].texts = <<Chars("a", 40)>>
        /\ ck.chunks[2].texts =
              <<Trailing(ck.chunks[1].text, 40), Chars("b", 400), Chars("c", 40)>>

\* the stripped, non-empty texts of the documents, in order
RECURSIVE DocTextsOf(_)
DocTextsOf(docs) ==
    IF docs = <<>> THEN <<>>
    ELSE (IF Strip(docs[1].text) = <<>> THEN <<>> ELSE <<Strip(docs[1].text)>>)
         \o DocTextsOf(Tail(docs))

\* the texts of the chunks, one after the other
RECURSIVE AllTexts(_)
AllTexts(chunks) ==
    IF chunks = <<>> THEN <<>> ELSE chunks[1].texts \o AllTexts(Tail(chunks))

\* C12: with overlap_tokens > 0 the first text of every chunk after the
\* first is the trailing min(len(A.text), overlap_tokens * 4) characters of
\* the text of the chunk before it; with overlap_tokens = 0 the chunks hold
\* the documents and nothing else.
C12_OverlapContinuity ==
    /\ ck.overlap_tokens > 0 =>
          \A k \in 2..Len(ck.chunks) :
              LET A == ck.chunks[k - 1]
                  B == ck.chunks[k]
              IN B.texts[1] = Trailing(A.text, Min(Len(A.text), ck.overlap_tokens * 4))
    /\ (ck.overlap_tokens = 0 /\ ck.at = "returned") =>
          AllTexts(ck.chunks) = DocTextsOf(ck.docs)

\* two chunks, the first longer than the overlap, so that the seed is a
\* proper tail of it
C12_Witness ==
    /\ ck.at = "returned"
    /\ ck.overlap_tokens > 0
    /\ Len(ck.chunks) >= 2
    /\ Len(ck.chunks[1].text) > ck.overlap_tokens * 4

\* C13: every chunk's text is the "\n\n" join of its texts, its doc_count
\* is the number of its texts, and the chunk ids are 0000, 0001, ... in
\* the order of emission.
C13_ChunkStructure ==
    \A k \in 1..Len(ck.chunks) :
        /\ ck.chunks[k].text = Join(ck.chunks[k].texts)
        /\ ck.chunks[k].meta.doc_count = Len(ck.chunks[k].texts)
        /\ ck.chunks[k].chunk_id =
              <<((k - 1) \div 1000) % 10, ((k - 1) \div 100) % 10, ((k - 1) \div 10) % 10, (k - 1) % 10>>

\* C14: when build_faiss_index returns for N chunks, the metadata has N
\* rows and the index N vectors, row i carries the id of chunk i and vector
\* i is the embedding of the text of chunk i, whatever the number of
\* batches; one request was made per batch of 50.
C14_FreshBuildAligned ==
    eb.at = "returned" =>
        LET N == Len(eb.chunks)
        IN /\ Len(eb.meta.rows) = N
           /\ Len(eb.index.vectors) = N
           /\ \A i \in 1..N :
                 /\ eb.meta.rows[i].chunk_id = eb.chunks[i].chunk_id
                 /\ eb.index.vectors[i].embedding_of = eb.chunks[i].text
           /\ eb.requests = (N + BatchSize - 1) \div BatchSize

\* a build of more chunks than one batch holds
C14_Witness == eb.at = "returned" /\ Len(eb.chunks) > BatchSize

\* C20: a build during which the provider answers one request with a rate
\* limit, and would serve the next attempt, ends with the index built.
C20_BoundedRetry ==
    (eb.at \in {"returned", "raised"} /\ eb.provider.kind = "rate_limit"
        /\ eb.chunks # <<>>)
        => (eb.at = "returned" /\ Exists(eb.index) /\ Exists(eb.meta))

\* C15: retrieve_chunks returns min(top_k, index size) results, scores
\* descending, ranks 1, 2, ... in list order, each result carrying the
\* fields of the metadata row at the position the search matched.
C15_Retrieve ==
    rq.at = "returned" =>
        LET k == Min(rq.top_k, Len(rq.files.index.vectors))
            rows == rq.files.meta.rows
        IN /\ Len(rq.results) = k
           /\ \A j \in 1..Len(rq.results) :
                 /\ rq.results[j].rank = j
                 /\ j > 1 => rq.results[j - 1].score >= rq.results[j].score
                 /\ j <= k =>
                       /\ rq.search[j].idx < Len(rows)
                       /\ rq.results[j].chunk_id = rows[rq.search[j].idx + 1].chunk_id
                       /\ rq.results[j].text = rows[rq.search[j].idx + 1].text
                       /\ rq.results[j].source_types = rows[rq.search[j].idx + 1].source_types
                       /\ rq.results[j].meta = rows[rq.search[j].idx + 1].meta

\* the log lines with which a stage states how it ended
SucceededLines ==
    {"[data_prep] HTML changed - rebuilt raw reviews JSON",
     "[data_prep] No existing JSON found - built raw reviews JSON",
     "[corpus_index] Built FAISS index",
     "[q2_analysis] Wrote analysis and summary",
     "[q2_validation] Validation passed.",
     "[q3] Q3 completed: success"}

SkippedLines ==
    {"[data_prep] HTML unchanged - reusing existing raw reviews JSON",
     "[corpus_index] Input unchanged and index exists - skipped (up to date)",
     "[q2_analysis] Input unchanged and outputs exist - skipped (up to date)",
     "[q3] Q2 analysis failed - skipping Q3 image generation",
     "[q3] Input unchanged and manifest exists - skipped (up to date)"}

\* "ERROR" stands for f"ERROR: {e}", which carries the exception's text
FailedLines ==
    {"[data_prep] ERROR", "[corpus_index] ERROR", "[q2_analysis] ERROR",
     "[q2_validation] ERROR", "[q2_validation] Validation found issues (see report).",
     "[q3] ERROR", "[q3] Q3 completed: partial", "[q3] Q3 completed: failed"}

IsVerdict(line) == line \in SucceededLines \cup SkippedLines \cup FailedLines

\* the stage a verdict line belongs to, by its "[stage]" prefix
StageOfLine(line) ==
    CASE line \in {"[data_prep] HTML changed - rebuilt raw reviews JSON",
                   "[data_prep] No existing JSON found - built raw reviews JSON",
                   "[data_prep] HTML unchanged - reusing existing raw reviews JSON",
                   "[data_prep] ERROR"} -> "data_prep"
      [] line \in {"[corpus_index] Built FAISS index", "[corpus_index] ERROR",
                   "[corpus_index] Input unchanged and index exists - skipped (up to date)"}
            -> "corpus_index"
      [] line \in {"[q2_analysis] Wrote analysis and summary", "[q2_analysis] ERROR",
                   "[q2_analysis] Input unchanged and outputs exist - skipped (up to date)"}
            -> "q2_analysis"
      [] line \in {"[q2_validation] Validation passed.", "[q2_validation] ERROR",
                   "[q2_validation] Validation found issues (see report)."} -> "q2_validation"
      [] OTHER -> "q3"

\* the reason that goes with a verdict other than success: the line's own
\* words, or the context field the line points to
HasReason(line, c) ==
    CASE line = "[q2_validation] Validation found issues (see report)."
            -> c.q2_validation_report \notin {"unset", "passed"}
      [] line \in {"[q3] Q3 completed: partial", "[q3] Q3 completed: failed"}
            -> c.q3_error_reason # "unset"
      [] OTHER -> TRUE

\* C16: the log of a run that returned holds exactly one verdict line per
\* stage, in stage order, and every verdict other than success comes with a
\* reason.
C16_LogEnumeratesStages ==
    Returned =>
        LET verdicts == SelectSeq(ctx.logs, IsVerdict)
        IN /\ Len(verdicts) = Len(Stages)
           /\ \A i \in 1..Len(verdicts) :
                 /\ i <= Len(Stages) => StageOfLine(verdicts[i]) = Stages[i]
                 /\ verdicts[i] \notin SucceededLines => HasReason(verdicts[i], ctx)

\* a returned run in which a stage failed and a later one skipped
C16_Witness == Returned /\ hist.failed # {} /\ ctx.q3_status = "skipped"

IsPrefix(a, b) == Len(a) <= Len(b) /\ a = SubSeq(b, 1, Len(a))

\* one step seen by the stage chain
C17_Step ==
    /\ IsPrefix(hist'.visited, Stages)
    /\ (pc' = "idle" /\ hist'.result \in {"returned", "raised"}) => hist'.visited = Stages
    /\ pc \notin {"idle", "save"} =>
          /\ hist'.visited = Append(hist.visited, pc)
          /\ IsPrefix(ctx.logs, ctx'.logs)

\* C17: in every run each of the five stages executes exactly once, in the
\* order data_prep, corpus_index, q2_analysis, q2_validation, q3, one after
\* the other has returned, and each stage only appends to the log.
C17_StageOrder == [][C17_Step]_allVars

\* the state file holds no record with a digest
Malformed(stateFile) == stateFile.kind # "json"

\* C18: whatever malformed content the state file holds, the head of the
\* run raises nothing, takes the record as absent and sets input_changed.
C18_CorruptRecordIsAbsence ==
    (fp.at \in {"compared", "raised"} /\ Malformed(fp.stateFile))
        => (fp.at = "compared" /\ fp.previous_fingerprint = None /\ fp.input_changed)

\* C19: two computations give the same digest exactly when the files had
\* the same names, sizes and mtimes, in whatever order they were listed; a
\* directory without HTML files gives the hash of the empty byte string.
C19_FingerprintDeterminism ==
    fp.at \in {"computed", "compared", "raised"} =>
        /\ fp.first.seen =>
              (fp.current_fingerprint = fp.first.digest <=> fp.files = fp.first.files)
        /\ fp.files = {} <=> fp.current_fingerprint = Sha256([bytes |-> <<>>])

\* a second computation after one file's size or mtime changed, two files listed
C19_Witness ==
    /\ fp.at = "computed"
    /\ fp.first.seen
    /\ Cardinality(fp.files) = 2
    /\ fp.files # fp.first.files
    /\ Cardinality(fp.first.files) = 2

\* C21: a query on an index file without vectors returns the empty list,
\* whatever the query text, top_k and the metadata file hold, and no
\* request for a query embedding is made.
C21_EmptyIndex ==
    (rq.at # "none" /\ rq.at # "called" /\ Len(rq.files.index.vectors) = 0) =>
        /\ rq.at = "returned"
        /\ rq.results = <<>>
        /\ rq.embedded = <<>>

\* an empty index beside a metadata file that still has rows, top_k positive
C21_Witness ==
    /\ rq.at = "returned"
    /\ Len(rq.files.index.vectors) = 0
    /\ Len(rq.files.meta.rows) > 0
    /\ rq.top_k > 0

InLog(line) == \E i \in 1..Len(ctx.logs) : ctx.logs[i] = line

\* what each stage writes when it succeeds on the HTML files of this run
FreshChunks == PipelineChunks(build_corpus(ReviewsJson(hist.startHtml)).docs)
FreshContext == [i \in 1..Len(FreshChunks) |-> FreshChunks[i].text]

IndexIsFresh ==
    hist.startHtml # {} /\ Exists(fs.index) /\ fs.index = IndexFile(FreshChunks)

AnalysisIsFresh ==
    /\ hist.startHtml # {}
    /\ Exists(fs.analysis) /\ fs.analysis.context = FreshContext
    /\ Exists(fs.summary) /\ fs.summary.context = FreshContext

ManifestIsFresh ==
    /\ hist.startHtml # {}
    /\ Exists(fs.manifest)
    /\ LET entry == fs.manifest.images[Len(fs.manifest.images)]
       IN /\ entry.prompts = FreshContext
          /\ entry.dalle3 = "success" \/ entry.sdxl = "success"

\* C22: a stage that reports its output as up to date reuses an artifact
\* that a successful execution of that stage wrote from the files that
\* have the current fingerprint.
C22_SkippedMeansFresh ==
    /\ InLog("[corpus_index] Input unchanged and index exists - skipped (up to date)")
          => IndexIsFresh
    /\ InLog("[q2_analysis] Input unchanged and outputs exist - skipped (up to date)")
          => AnalysisIsFresh
    /\ InLog("[q3] Input unchanged and manifest exists - skipped (up to date)")
          => ManifestIsFresh

\* q3_agent called run_q3_for_product in the step
Q3Generates == "run_q3_for_product" \in hist'.invoked

\* C23: entered with q2_status "failed", q3_agent generates no image
\* whatever input_changed and the manifest are, sets q3_status to
\* "skipped" with a reason, appends one log line and leaves the Q2 fields
\* and the files alone; with any other q2_status it generates exactly when
\* the input changed or the manifest is missing.
C23_Step ==
    (pc = "q3" /\ pc' # "q3") =>
        /\ \A s \in {"pending", "success", "skipped"} : ~Q3Blocked(s)
        /\ IF ctx.q2_status = "failed"
           THEN /\ ~Q3Generates
                /\ fs' = fs
                /\ ctx'.q3_status = "skipped"
                /\ ctx'.q3_error_reason = "Q2 analysis failed - missing visual attributes"
                /\ Len(ctx'.logs) = Len(ctx.logs) + 1
                /\ SubSeq(ctx'.logs, 1, Len(ctx.logs)) = ctx.logs
                /\ ctx' = [ctx EXCEPT !.q3_status = ctx'.q3_status,
                                      !.q3_error_reason = ctx'.q3_error_reason,
                                      !.q3_manifest_path = ctx'.q3_manifest_path,
                                      !.logs = ctx'.logs]
           ELSE Q3Generates <=> (ctx.input_changed \/ ~Exists(fs.manifest))

C23_Q2FailedGuard == [][C23_Step]_allVars

\* q3_agent has returned from the guard in a run whose input changed, the
\* manifest of an earlier run being on disk
C23_Witness ==
    /\ pc = "save"
    /\ ctx.q2_status = "failed"
    /\ ctx.q3_status = "skipped"
    /\ ctx.input_changed
    /\ Exists(fs.manifest)

\* the trimmed bodies of the reviews that have one, in the order of the file
RECURSIVE KeptBodies(_)
KeptBodies(reviews) ==
    IF reviews = <<>> THEN <<>>
    ELSE (IF Strip(Head(reviews).body) = <<>> THEN <<>> ELSE <<Strip(Head(reviews).body)>>)
         \o KeptBodies(Tail(reviews))

\* C27: every document build_corpus returns has rating None or an int in
\* 1..5; reviews with a blank body are left out; the description comes
\* first and the reviews follow in the order of the file.
C27_BuildCorpus ==
    cb.at = "returned" =>
        LET hasDescription == Strip(cb.description.text) # <<>>
            reviewDocs == IF hasDescription THEN Tail(cb.corpus) ELSE cb.corpus
        IN /\ \A i \in 1..Len(cb.corpus) :
                 \/ cb.corpus[i].rating = None
                 \/ /\ cb.corpus[i].rating.kind = "int"
                    /\ cb.corpus[i].rating.value \in 1..5
           /\ hasDescription =>
                 /\ cb.corpus # <<>>
                 /\ cb.corpus[1].type = "description"
                 /\ cb.corpus[1].text = Strip(cb.description.text)
           /\ \A i \in 1..Len(reviewDocs) : reviewDocs[i].type = "review"
           /\ [i \in 1..Len(reviewDocs) |-> reviewDocs[i].text] = KeptBodies(cb.reviews)

RECURSIVE RealTextsUpTo(_)
RealTextsUpTo(k) == IF k = 0 THEN <<>> ELSE RealTextsUpTo(k - 1) \o RealTexts(k)

\* the documents chunk k was filled from
DocsOfChunk(k) ==
    SubSeq(ck.docs, Len(RealTextsUpTo(k - 1)) + 1, Len(RealTextsUpTo(k)))

RECURSIVE SumCounts(_, _)
SumCounts(k, r) ==
    IF k = 0 THEN 0 ELSE SumCounts(k - 1, r) + ck.chunks[k].meta.rating_counts[r]

\* C24: the chunks, their overlap seeds removed, hold the documents' trimmed
\* texts once each and in order; every chunk holds a document; the seed
\* adds no source type; and over all chunks rating_counts[r] is the number
\* of documents rated r.
C24_NothingLostOrDuplicated ==
    ck.at = "returned" =>
        /\ RealTextsUpTo(Len(ck.chunks)) = DocTextsOf(ck.docs)
        /\ \A k \in 1..Len(ck.chunks) :
              /\ RealTexts(k) # <<>>
              /\ ck.chunks[k].source_types =
                    {DocsOfChunk(k)[i].type : i \in 1..Len(DocsOfChunk(k))}
        /\ \A r \in 1..5 :
              SumCounts(Len(ck.chunks), r) =
                  Cardinality({i \in 1..Len(ck.docs) : ck.docs[i].rating = IntRating(r)})

\* the same with the ratings the corpus builder is specified to hand over
C24_WithIntegerRatings ==
    (\A i \in 1..Len(ck.docs) : ck.docs[i].rating.kind # "float")
        => C24_NothingLostOrDuplicated

\* len(text) / 4 rounded up
CeilDiv4(n) == (n + 3) \div 4

\* C26: estimate_tokens(text) is max(1, ceil(len(text) / 4)): the bin that
\* holds the first document alone counts that many tokens.
C26_EstimateTokens ==
    (ck.at = "loop" /\ ck.next = 2 /\ ck.chunks = <<>>) =>
        ck.current_tokens = Max(1, CeilDiv4(Len(Strip(ck.docs[1].text))))

\* sub occurs in t as a run of consecutive characters
Contains(t, sub) ==
    \E i \in 1..(Len(t) - Len(sub) + 1) : SubSeq(t, i, i + Len(sub) - 1) = sub

\* C25: a document whose own estimate exceeds target_tokens is the only
\* entry of the texts of its chunk, and its text occurs in no other chunk,
\* whatever overlap_tokens is and wherever the document stands.
C25_OversizedAlone ==
    ck.at = "returned" =>
        \A i \in 1..Len(ck.docs) :
            LET text == Strip(ck.docs[i].text)
            IN estimate_tokens(text) > ck.target_tokens =>
                  \E k \in 1..Len(ck.chunks) :
                      /\ ck.chunks[k].texts = <<text>>
                      /\ \A j \in 1..Len(ck.chunks) :
                            j # k => ~Contains(ck.chunks[j].text, text)

\* the same for calls with overlap_tokens = 0
C25_WithoutOverlap == ck.overlap_tokens = 0 => C25_OversizedAlone

SdxlReturned == gq.at \in {"sdxl_done", "returned"}

\* C28: when generate_sdxl_images has returned, the image of every
\* "success" record is still at its filepath; archiving happens only when
\* an image was generated and moves only images of earlier runs.
C28_NewImagesStay ==
    SdxlReturned =>
        /\ \A i \in 1..Len(gq.metadata) :
              gq.metadata[i].status = "success" =>
                  [name |-> gq.metadata[i].filepath, run |-> "current"] \in gq.dir
        /\ \A f \in gq.archive : f.run = "earlier"
        /\ gq.success_count = 0 => (gq.dir = gq.earlier /\ gq.archive = {})

\* C29: overall_status is "failed", and the reason "All image generation
\* failed", only when neither model produced an image; it is "success"
\* only when both models are "success".
C29_OverallStatus ==
    gq.at = "returned" =>
        LET images == gq.dalle_status.num_images + gq.sdxl_status.num_images
        IN /\ gq.overall_status \in {"success", "partial", "failed"}
           /\ gq.overall_status = "failed" => images = 0
           /\ Q3ErrorReason(gq.overall_status, gq.sdxl_status.status, "unset")
                  = "All image generation failed" => images = 0
           /\ gq.overall_status = "success" =>
                  (gq.dalle_status.status = "success" /\ gq.sdxl_status.status = "success")

\* the records of one image
RecordsOf(prompt) ==
    {i \in 1..Len(gq.metadata) : gq.metadata[i].prompt_id = prompt}

\* C30: with the key set and prompts present, the retry loop makes at most
\* max_retries + 1 requests per image and leaves one record per image, so
\* on return success_count + failed_count is the number of images.
C30_RetryAccounting ==
    /\ gq.at # "none" =>
          \A i \in 1..gq.sdxl_prompts : gq.requests[i] <= SDXL_MAX_RETRIES + 1
    /\ (SdxlReturned /\ gq.sdxl_key /\ gq.sdxl_prompts > 0) =>
          /\ \A i \in 1..gq.sdxl_prompts : Cardinality(RecordsOf(i)) = 1
          /\ gq.success_count + gq.failed_count = gq.sdxl_prompts

\* the retry bound alone
C30_RequestsBounded ==
    gq.at # "none" =>
        \A i \in 1..gq.sdxl_prompts : gq.requests[i] <= SDXL_MAX_RETRIES + 1

====
